---- MODULE Spec2Model ----
(***************************************************************************)
(* Model of insight (src/insight/src/lib.rs): an allocator wrapper that    *)
(* consults per-thread mode flags, records a Trace event into a bounded    *)
(* process-wide queue, and a dump routine that drains the queue.           *)
(*                                                                         *)
(* Each thread is a call stack of frames.  A frame is a scope (no_log,     *)
(* forbid), an alloc call or a dump_alloc call; the frame's pc is the      *)
(* place in the function's body the thread has reached.  A panic unwinds   *)
(* the thread's stack, running the Drop of every Guard it passes.          *)
(***************************************************************************)
EXTENDS Integers, Sequences, FiniteSets, TLC

\* ------------------------------------------------------------------ bounds
\* Capacity of the event queue.  The source sets 4096 (lib.rs:39); the model
\* scales it down so that a full queue is reached.
ALLOC_LOG_SIZE == 2
\* Most alloc calls (program-level and re-entrant together) in one run.
MaxCalls == 4
\* Deepest call stack of one thread (scopes and calls nested).
MaxDepth == 3
\* Most scopes (no_log, forbid) nested on one thread.
MaxScopes == 2
\* Longest captured stack in a queue that dump_alloc is given.
MaxTrace == 2
\* Most realloc calls, and most dealloc calls, in one run.
MaxForward == 1

Threads == {"t1", "t2"}
\* The threads whose program enters no_log and forbid scopes (and, in the
\* program as written, calls realloc and dealloc).
Scoped == {"t1"}

\* ------------------------------------------------------------- AllocFlags
LOG_DISABLED == "LOG_DISABLED"
LOG_ENABLED == "LOG_ENABLED"
FORBID == "FORBID"
AllocFlags == {LOG_DISABLED, LOG_ENABLED, FORBID}

\* bitflags insert / remove / contains on a flag set
Insert(flags, bit) == flags \cup {bit}
Remove(flags, bit) == flags \ {bit}
Contains(flags, bit) == bit \in flags

\* ----------------------------------------------------------------- Layout
Layout(n) == [size |-> n, align |-> 8]
\* The descriptor of the program's n-th allocation request (n from 0):
\* sizes 8, 16, 32, ... with the default alignment.
RequestLayout(n) == Layout(8 * 2^n)
\* The descriptors of the first n requests, in order.
Requested(n) == [i \in 1..n |-> RequestLayout(i - 1)]
\* ArrayQueue::new(cap) allocates its slot buffer
BufLayout == Layout(ALLOC_LOG_SIZE * 64)
\* Vec<Option<*mut c_void>> grows from capacity 0 to 4 on its first push
VecLayout == Layout(4 * 16)
\* symbol.name().to_string() allocates the String
StrLayout == Layout(24)
NoLayout == Layout(0)

\* ------------------------------------------------------------ stack walk
\* Raw addresses the stack walk can capture; NoAddr is symbol.addr() = None.
NoAddr == "null"
Addrs == {"a_main", "a_alloc", "a_anon", "a_trace", "a_walk", "a_impl"}
\* backtrace::resolve: the name of the symbol at an address as a string of
\* characters, <<>> when the address resolves to no name.
SymbolName(addr) ==
    CASE addr = "a_main" -> <<"m", "a", "i", "n">>
      [] addr = "a_alloc" -> <<"i", "n", "s", "i", "g", "h", "t", ":", ":", "a">>
      [] addr = "a_trace" -> <<"r", "e", "t", "r", "a", "c", "e">>
      [] addr = "a_walk" -> <<"b", "a", "c", "k", "t", "r", "a", "c", "e", ":", ":", "t">>
      [] addr = "a_impl" -> <<"<", "G", "l", "o", "b", "a", "l", "A", "l", "l", "o", "c", ">">>
      [] OTHER -> <<>>
\* What one walk of the stack can yield: nothing (no frame resolves to a
\* symbol) or the frames of the caller.
Traces == {<<>>, <<"a_main">>}

\* str::contains
StrContains(s, pat) ==
    \E i \in 1..(Len(s) - Len(pat) + 1) : SubSeq(s, i, i + Len(pat) - 1) = pat

\* The three filter substrings of dump_alloc.
Filters ==
    { <<"b", "a", "c", "k", "t", "r", "a", "c", "e">>,
      <<"G", "l", "o", "b", "a", "l", "A", "l", "l", "o", "c">>,
      <<"i", "n", "s", "i", "g", "h", "t">> }

\* An address dump_alloc resolves to a name (which it copies to a String).
Named(addr) == addr # NoAddr /\ SymbolName(addr) # <<>>

\* A filter that leaves out the test for the third substring.
RECURSIVE ResolveTraceTwoFilters(_)
ResolveTraceTwoFilters(bt) ==
    IF bt = <<>> THEN <<>>
    ELSE LET s == SymbolName(Head(bt))
             keep == /\ Named(Head(bt))
                     /\ ~StrContains(s, <<"b", "a", "c", "k", "t", "r", "a", "c", "e">>)
                     /\ ~StrContains(s, <<"G", "l", "o", "b", "a", "l", "A", "l", "l", "o", "c">>)
         IN (IF keep THEN <<s>> ELSE <<>>) \o ResolveTraceTwoFilters(Tail(bt))

\* The `trace` dump_alloc builds from an event's addresses: the names of the
\* named addresses that contain no filter substring, in order.
RECURSIVE ResolveTrace(_)
ResolveTrace(bt) ==
    IF bt = <<>> THEN <<>>
    ELSE LET s == SymbolName(Head(bt))
             keep == Named(Head(bt)) /\ \A pat \in Filters : ~StrContains(s, pat)
         IN (IF keep THEN <<s>> ELSE <<>>) \o ResolveTrace(Tail(bt))

\* ------------------------------------------------------------------ state
VARIABLES
    ALLOC_LOG,          \* static mut Option<ArrayQueue<AllocLog>>: [some, q]
    ALLOC_INITIALIZING, \* static AtomicBool
    ALLOC_MODE,         \* thread_local Cell<AllocFlags>, one per thread
    stack,              \* each thread's call stack, innermost frame last
    status,             \* each thread: "new" before it starts, "run",
                        \* "dead" after a panic, or
                        \* "abort" after the process aborted
    msg,                \* each thread's panic message, "" when none
    out,                \* the lines dump_alloc has printed
    hist,               \* history: counts of the program's requests, of
                        \* all alloc calls, of pushes and of pops, the
                        \* threads that pushed and popped, and the flags
                        \* under which realloc and dealloc were called
    inner,              \* the underlying allocator (self.inner): whether it
                        \* is out of memory, and the calls it has received
    ret                 \* each thread: the pointer its last alloc or
                        \* realloc call returned

vars == <<ALLOC_LOG, ALLOC_INITIALIZING, ALLOC_MODE, stack, status, msg,
          out, hist, inner, ret>>

None == [some |-> FALSE, q |-> <<>>]
Some(queue) == [some |-> TRUE, q |-> queue]

\* AllocLog::Test(layout, trace); id is the event's serial number in the
\* order of the pushes (history, never read by the program).
Test(layout, trace, id) == [layout |-> layout, bt |-> trace, id |-> id]
NoEvent == Test(NoLayout, <<>>, 0)

\* Pointers: the null pointer, or a block the underlying allocator handed
\* out, known by its size; NoPtr is a thread that holds no pointer.
NullPtr == [block |-> 0, size |-> 0]
NoPtr == [block |-> -1, size |-> 0]
Block(size) == [block |-> 1, size |-> size]

\* self.inner.alloc(layout): the underlying allocator receives the call; it
\* returns null when it is out of memory, else a block of the size asked.
InnerAlloc(in, layout) ==
    [inner |-> [in EXCEPT !.n = @ + 1],
     ptr |-> IF in.oom THEN NullPtr ELSE Block(layout.size)]

\* self.inner.realloc(ptr, layout, new_size): null when out of memory, else
\* the block resized.
InnerRealloc(in, ptr, new_size) ==
    [inner |-> [in EXCEPT !.reallocs = @ + 1],
     ptr |-> IF in.oom THEN NullPtr ELSE Block(new_size)]

\* self.inner.dealloc(ptr, layout)
InnerDealloc(in, ptr) == [in EXCEPT !.deallocs = @ + 1]

\* The underlying allocator before any call, with memory to give.
InitInner == [oom |-> FALSE, n |-> 0, reallocs |-> 0, deallocs |-> 0]

ForbiddenMsg == "Allocation performed when forbidden"
UnwrapNoneMsg == "called Option::unwrap() on a None value"
PushErrorMsg == "called Result::unwrap() on an Err value: PushError"
PopErrorMsg == "Error: PopError"

\* ----------------------------------------------------------------- frames
\* entry: the thread's flags when the call was made; pushed: the call has
\* pushed its event (both history).
Frame(kind, pc, layout, entry) ==
    [kind |-> kind, pc |-> pc, layout |-> layout, entry |-> entry,
     trace |-> <<>>, pushed |-> FALSE, ev |-> NoEvent]

Top(s) == s[Len(s)]
Pop(s) == SubSeq(s, 1, Len(s) - 1)
SetTop(s, f) == [s EXCEPT ![Len(s)] = f]

IsScope(f) == f.kind \in {"no_log", "forbid"}

\* The thread runs program code: it is at top level or in a scope's closure.
InProgram(t) ==
    /\ status[t] = "run"
    /\ IF stack[t] = <<>> THEN TRUE ELSE IsScope(Top(stack[t]))

\* The thread runs the body of a call of the given kind at the given pc.
At(t, kind, pc) ==
    /\ status[t] = "run"
    /\ stack[t] # <<>>
    /\ Top(stack[t]).kind = kind
    /\ Top(stack[t]).pc = pc

\* The bit of the Guard a frame holds, {} when it holds none: a scope holds
\* the guard of no_log or forbid, dump_alloc and the closure of alloc run
\* under no_log.
GuardBits(f) ==
    CASE f.kind = "no_log" -> {LOG_DISABLED}
      [] f.kind = "forbid" -> {FORBID}
      [] f.kind = "dump" -> {LOG_DISABLED}
      [] f.kind = "alloc" /\ f.pc \in {"trace", "push", "drop"} -> {LOG_DISABLED}
      [] OTHER -> {}

\* A set that writes one process-wide cell, as a static would.
Cell_set_shared(modes, t, flags) == [u \in DOMAIN modes |-> flags]

\* ALLOC_MODE.with(|mode| mode.set(new)): the calling thread's cell is set.
Cell_set(modes, t, flags) == [modes EXCEPT ![t] = flags]

\* The value a thread's cell is created with: Cell::new(LOG_DISABLED).
Cell_new == {LOG_DISABLED}

\* Guard::new: union the requested bit into the thread's flags.
Guard_new(flags, newmode) == Insert(flags, newmode)

\* Drop for Guard: remove the bit the guard was made with.
Guard_drop(flags, bit) == Remove(flags, bit)

\* Unwinding that runs no Drop: the flags stay as they are.
UnwoundLeak(flags, s) == flags

\* Leaving a frame drops the guard it holds, if any.
DropGuards(flags, f) ==
    IF GuardBits(f) = {} THEN flags
    ELSE Guard_drop(flags, CHOOSE b \in GuardBits(f) : TRUE)

\* A counting release: the bit stays while an outer frame holds a guard for it.
LeaveFrameCounting(flags, s) ==
    IF \E i \in 1..(Len(s) - 1) : GuardBits(s[i]) = GuardBits(Top(s))
    THEN flags
    ELSE DropGuards(flags, Top(s))

\* The flags after the innermost frame of stack s is left by a return.
LeaveFrame(flags, s) == DropGuards(flags, Top(s))

\* Unwinding a stack: the guards are dropped innermost first.
RECURSIVE Unwound(_, _)
Unwound(flags, s) ==
    IF s = <<>> THEN flags ELSE Unwound(DropGuards(flags, Top(s)), Pop(s))

\* The flags of a thread that has entered no scope: {LOG_DISABLED}, the
\* thread_local's initial value, or {LOG_ENABLED}, the value the toggle in
\* alloc (lib.rs:133-135) sets.  t2 starts with the initial value, t1 with
\* either.
InitModes ==
    { [t \in Threads |-> {LOG_DISABLED}],
      [t \in Threads |-> IF t = "t1" THEN {LOG_ENABLED} ELSE {LOG_DISABLED}] }

InitHist ==
    [reqs |-> 0, calls |-> 0, pushes |-> 0, pops |-> 0,
     pushers |-> {}, poppers |-> {}, fwd |-> {}]

\* The process before its first allocation, or after the first allocation
\* was made (by the runtime, on a thread that is not modelled).  t1 runs, t2
\* is not yet started.
Init ==
    /\ \/ ALLOC_LOG = None /\ ALLOC_INITIALIZING = FALSE
       \/ ALLOC_LOG = Some(<<>>) /\ ALLOC_INITIALIZING = TRUE
    /\ ALLOC_MODE \in InitModes
    /\ stack = [t \in Threads |-> <<>>]
    /\ status = [t \in Threads |-> IF t = "t1" THEN "run" ELSE "new"]
    /\ msg = [t \in Threads |-> ""]
    /\ out = <<>>
    /\ hist = InitHist
    /\ inner = InitInner
    /\ ret = [t \in Threads |-> NoPtr]

\* A panic in the thread's innermost frame, where the thread's flags are
\* `flags`: the stack unwinds, every guard on it is dropped, and the thread
\* ends with the message.
Panic(t, m, flags) ==
    /\ status' = [status EXCEPT ![t] = "dead"]
    /\ msg' = [msg EXCEPT ![t] = m]
    /\ ALLOC_MODE' = Cell_set(ALLOC_MODE, t, Unwound(flags, stack[t]))
    /\ stack' = [stack EXCEPT ![t] = <<>>]

\* Calling alloc(layout): `caller` is the thread's stack with the calling
\* frame already set to the pc it resumes at (program code has no pc: its
\* call leaves the stack as it is and counts as a request).  The call evaluates
\* if ALLOC_LOG.is_none() && ! ALLOC_INITIALIZING.load(SeqCst)
CallAlloc(t, layout, caller) ==
    /\ hist.calls < MaxCalls
    /\ Len(stack[t]) < MaxDepth
    /\ LET pc == IF ~ALLOC_LOG.some /\ ~ALLOC_INITIALIZING THEN "store" ELSE "mode"
       IN stack' = [stack EXCEPT ![t] =
                       Append(caller, Frame("alloc", pc, layout, ALLOC_MODE[t]))]
    /\ hist' = [hist EXCEPT !.calls = @ + 1,
                            !.reqs = IF caller = stack[t] THEN @ + 1 ELSE @]

\* Number of scope frames on a stack.
Scopes(s) == Cardinality({i \in 1..Len(s) : IsScope(s[i])})

\* ------------------------------------------------------- program actions
\* A thread starts: its thread_local cell is created on first use.
thread_start(t) ==
    /\ status[t] = "new"
    /\ status' = [status EXCEPT ![t] = "run"]
    /\ ALLOC_MODE' = Cell_set(ALLOC_MODE, t, Cell_new)
    /\ UNCHANGED <<ALLOC_LOG, ALLOC_INITIALIZING, stack, msg, out, hist, inner, ret>>

\* The program calls alloc(layout) through the global allocator.
program_alloc(t) ==
    /\ InProgram(t)
    /\ CallAlloc(t, RequestLayout(hist.reqs), stack[t])
    /\ UNCHANGED <<ALLOC_LOG, ALLOC_INITIALIZING, ALLOC_MODE, status, msg, out, inner, ret>>

\* Entering a scope: Guard::new(bit), then the closure f runs.
EnterScope(t, kind, bit) ==
    /\ InProgram(t)
    /\ t \in Scoped
    /\ Len(stack[t]) < MaxDepth
    /\ Scopes(stack[t]) < MaxScopes
    /\ ALLOC_MODE' = Cell_set(ALLOC_MODE, t, Guard_new(ALLOC_MODE[t], bit))
    /\ stack' = [stack EXCEPT ![t] = Append(@, Frame(kind, "body", NoLayout, {}))]
    /\ UNCHANGED <<ALLOC_LOG, ALLOC_INITIALIZING, status, msg, out, hist, inner, ret>>

no_log(t) == EnterScope(t, "no_log", LOG_DISABLED)

forbid(t) == EnterScope(t, "forbid", FORBID)

\* The closure of the innermost scope returns: its _guard is dropped.
scope_return(t) ==
    /\ status[t] = "run"
    /\ stack[t] # <<>>
    /\ IsScope(Top(stack[t]))
    /\ ALLOC_MODE' = Cell_set(ALLOC_MODE, t, LeaveFrame(ALLOC_MODE[t], stack[t]))
    /\ stack' = [stack EXCEPT ![t] = Pop(@)]
    /\ UNCHANGED <<ALLOC_LOG, ALLOC_INITIALIZING, status, msg, out, hist, inner, ret>>

\* ----------------------------------------------------- AllocImpl::alloc
\* ALLOC_INITIALIZING.store(true, SeqCst)
alloc_store(t) ==
    /\ At(t, "alloc", "store")
    /\ ALLOC_INITIALIZING' = TRUE
    /\ stack' = [stack EXCEPT ![t] = SetTop(@, [Top(@) EXCEPT !.pc = "new"])]
    /\ UNCHANGED <<ALLOC_LOG, ALLOC_MODE, status, msg, out, hist, inner, ret>>

\* ArrayQueue::new(ALLOC_LOG_SIZE) allocates the queue's buffer through the
\* global allocator: alloc is entered again on the same thread.
alloc_new(t) ==
    /\ At(t, "alloc", "new")
    /\ CallAlloc(t, BufLayout,
                 SetTop(stack[t], [Top(stack[t]) EXCEPT !.pc = "assign"]))
    /\ UNCHANGED <<ALLOC_LOG, ALLOC_INITIALIZING, ALLOC_MODE, status, msg, out, inner, ret>>

\* The construction with the toggle of lib.rs:133-135 not commented out:
\* the constructing thread's flags are set to {LOG_ENABLED}.
alloc_assign_toggle(t) ==
    /\ At(t, "alloc", "assign")
    /\ ALLOC_LOG' = Some(<<>>)
    /\ ALLOC_MODE' = Cell_set(ALLOC_MODE, t, {LOG_ENABLED})
    /\ stack' = [stack EXCEPT ![t] = SetTop(@, [Top(@) EXCEPT !.pc = "mode"])]
    /\ UNCHANGED <<ALLOC_INITIALIZING, status, msg, out, hist, inner, ret>>

\* ALLOC_LOG = Some(queue): a plain store to the static, whatever it holds;
\* a queue it held is dropped with its events.
alloc_assign(t) ==
    /\ At(t, "alloc", "assign")
    /\ ALLOC_LOG' = Some(<<>>)
    /\ stack' = [stack EXCEPT ![t] = SetTop(@, [Top(@) EXCEPT !.pc = "mode"])]
    /\ UNCHANGED <<ALLOC_INITIALIZING, ALLOC_MODE, status, msg, out, hist, inner, ret>>

\* The closure testing LOG_DISABLED where the code tests LOG_ENABLED.
ModeCheckDisabledBit(mode) ==
    IF Contains(mode, FORBID) THEN "panic"
    ELSE IF Contains(mode, LOG_DISABLED) THEN "record"
    ELSE "skip"

\* The closure testing LOG_ENABLED before FORBID.
ModeCheckEnabledFirst(mode) ==
    IF Contains(mode, LOG_ENABLED) THEN "record"
    ELSE IF Contains(mode, FORBID) THEN "panic"
    ELSE "skip"

\* What the closure does with the flags it read: panic, record or neither.
ModeCheck(mode) ==
    IF Contains(mode, FORBID) THEN "panic"
    ELSE IF Contains(mode, LOG_ENABLED) THEN "record"
    ELSE "skip"

\* ALLOC_MODE.with(|mode| no_log(|| { let mode = mode.get(); ... })):
\* Guard::new(LOG_DISABLED), then the FORBID and LOG_ENABLED tests on the
\* flags read under the guard.  The panic unwinds through the guard.
alloc_mode(t) ==
    /\ At(t, "alloc", "mode")
    /\ LET mode == Guard_new(ALLOC_MODE[t], LOG_DISABLED)
           act == ModeCheck(mode)
       IN IF act = "panic"
          THEN Panic(t, ForbiddenMsg, Guard_drop(mode, LOG_DISABLED))
          ELSE /\ ALLOC_MODE' = Cell_set(ALLOC_MODE, t, mode)
               /\ stack' = [stack EXCEPT ![t] = SetTop(@, [Top(@) EXCEPT !.pc =
                                IF act = "record" THEN "trace" ELSE "drop"])]
               /\ UNCHANGED <<status, msg>>
    /\ UNCHANGED <<ALLOC_LOG, ALLOC_INITIALIZING, out, hist, inner, ret>>

\* backtrace::trace: the walk fills `trace`; the first trace.push grows the
\* Vec from capacity 0, which allocates through the global allocator.
alloc_trace(t) ==
    /\ At(t, "alloc", "trace")
    /\ \E tr \in Traces :
          LET f == [Top(stack[t]) EXCEPT !.trace = tr, !.pc = "push"] IN
          IF tr = <<>>
          THEN /\ stack' = [stack EXCEPT ![t] = SetTop(@, f)]
               /\ UNCHANGED hist
          ELSE CallAlloc(t, VecLayout, SetTop(stack[t], f))
    /\ UNCHANGED <<ALLOC_LOG, ALLOC_INITIALIZING, ALLOC_MODE, status, msg, out, inner, ret>>

\* A push that evicts the oldest entry of a full queue.
ArrayQueue_force_push(q, entry) ==
    IF Len(q) >= ALLOC_LOG_SIZE
    THEN [ok |-> TRUE, q |-> Append(Tail(q), entry)]
    ELSE [ok |-> TRUE, q |-> Append(q, entry)]

\* ArrayQueue::push: Ok with the entry appended, Err on a full queue.
ArrayQueue_push(q, entry) ==
    IF Len(q) >= ALLOC_LOG_SIZE
    THEN [ok |-> FALSE, q |-> q]
    ELSE [ok |-> TRUE, q |-> Append(q, entry)]

\* add_log_entry(AllocLog::Test(layout, trace)):
\* ALLOC_LOG.as_ref().unwrap().push(entry).unwrap()
add_log_entry(t) ==
    /\ At(t, "alloc", "push")
    /\ LET f == Top(stack[t])
           entry == Test(f.layout, f.trace, hist.pushes + 1)
           r == ArrayQueue_push(ALLOC_LOG.q, entry) IN
       IF ~ALLOC_LOG.some
       THEN /\ Panic(t, UnwrapNoneMsg, ALLOC_MODE[t])
            /\ UNCHANGED <<ALLOC_LOG, hist>>
       ELSE IF ~r.ok
       THEN /\ Panic(t, PushErrorMsg, ALLOC_MODE[t])
            /\ UNCHANGED <<ALLOC_LOG, hist>>
       ELSE /\ ALLOC_LOG' = Some(r.q)
            /\ hist' = [hist EXCEPT !.pushes = @ + 1, !.pushers = @ \cup {t}]
            /\ stack' = [stack EXCEPT ![t] =
                            SetTop(@, [f EXCEPT !.pc = "drop", !.pushed = TRUE])]
            /\ UNCHANGED <<ALLOC_MODE, status, msg>>
    /\ UNCHANGED <<ALLOC_INITIALIZING, out, inner, ret>>

\* The caller of the innermost call is library code (ArrayQueue::new, Vec
\* growth, to_string), which calls handle_alloc_error on a null result.
InternalCaller(s) == Len(s) > 1 /\ ~IsScope(s[Len(s) - 1])

\* An alloc that gives up the underlying allocator's block after recording.
alloc_return_recorded_null(t) ==
    /\ At(t, "alloc", "drop")
    /\ LET r == InnerAlloc(inner, Top(stack[t]).layout) IN
       /\ inner' = r.inner
       /\ ALLOC_MODE' = Cell_set(ALLOC_MODE, t, LeaveFrame(ALLOC_MODE[t], stack[t]))
       /\ stack' = [stack EXCEPT ![t] = Pop(@)]
       /\ ret' = [ret EXCEPT ![t] = IF Top(stack[t]).pushed THEN NullPtr ELSE r.ptr]
    /\ UNCHANGED <<ALLOC_LOG, ALLOC_INITIALIZING, status, msg, out, hist>>

\* The closure ends: _guard is dropped; then self.inner.alloc(layout) runs
\* and alloc returns its result.  A null result given to library code aborts
\* the process: no thread runs on and nothing unwinds.
alloc_return(t) ==
    /\ At(t, "alloc", "drop")
    /\ LET r == InnerAlloc(inner, Top(stack[t]).layout) IN
       /\ inner' = r.inner
       /\ ALLOC_MODE' = Cell_set(ALLOC_MODE, t, LeaveFrame(ALLOC_MODE[t], stack[t]))
       /\ IF r.ptr = NullPtr /\ InternalCaller(stack[t])
          THEN /\ status' = [u \in Threads |-> "abort"]
               /\ UNCHANGED <<stack, ret>>
          ELSE /\ stack' = [stack EXCEPT ![t] = Pop(@)]
               /\ ret' = [ret EXCEPT ![t] = r.ptr]
               /\ UNCHANGED status
    /\ UNCHANGED <<ALLOC_LOG, ALLOC_INITIALIZING, msg, out, hist>>

\* ------------------------------------------- AllocImpl::realloc, dealloc
\* A realloc that records its descriptor the way alloc does.
realloc_recorded(t) ==
    /\ InProgram(t)
    /\ ret[t].block > 0
    /\ inner.reallocs < MaxForward
    /\ LET r == InnerRealloc(inner, ret[t], ret[t].size + 4) IN
       /\ inner' = r.inner
       /\ ret' = [ret EXCEPT ![t] = r.ptr]
    /\ ALLOC_LOG' = IF ALLOC_LOG.some /\ Len(ALLOC_LOG.q) < ALLOC_LOG_SIZE
                    THEN Some(Append(ALLOC_LOG.q,
                                     Test(Layout(ret[t].size + 4), <<>>, 0)))
                    ELSE ALLOC_LOG
    /\ hist' = [hist EXCEPT !.fwd = @ \cup {ALLOC_MODE[t]}]
    /\ UNCHANGED <<ALLOC_INITIALIZING, ALLOC_MODE, stack, status, msg, out>>

\* The program resizes the block it holds: realloc(ptr, layout, new_size)
\* is self.inner.realloc(ptr, layout, new_size).
realloc(t) ==
    /\ InProgram(t)
    /\ ret[t].block > 0
    /\ inner.reallocs < MaxForward
    /\ LET r == InnerRealloc(inner, ret[t], ret[t].size + 4) IN
       /\ inner' = r.inner
       /\ ret' = [ret EXCEPT ![t] = r.ptr]
    /\ hist' = [hist EXCEPT !.fwd = @ \cup {ALLOC_MODE[t]}]
    /\ UNCHANGED <<ALLOC_LOG, ALLOC_INITIALIZING, ALLOC_MODE, stack, status,
                   msg, out>>

\* The program frees the block it holds: dealloc(ptr, layout) is
\* self.inner.dealloc(ptr, layout).
dealloc(t) ==
    /\ InProgram(t)
    /\ ret[t].block > 0
    /\ inner.deallocs < MaxForward
    /\ inner' = InnerDealloc(inner, ret[t])
    /\ ret' = [ret EXCEPT ![t] = NoPtr]
    /\ hist' = [hist EXCEPT !.fwd = @ \cup {ALLOC_MODE[t]}]
    /\ UNCHANGED <<ALLOC_LOG, ALLOC_INITIALIZING, ALLOC_MODE, stack, status,
                   msg, out>>

\* ------------------------------------------------------------ dump_alloc
\* The program calls dump_alloc(): no_log's Guard::new(LOG_DISABLED), then
\* let log = ALLOC_LOG.as_mut().unwrap(), whose panic unwinds through the
\* guard.  `log` is read as the static's current queue at every use.
dump_alloc(t) ==
    /\ InProgram(t)
    /\ Len(stack[t]) < MaxDepth
    /\ IF ~ALLOC_LOG.some
       THEN Panic(t, UnwrapNoneMsg,
                  Guard_drop(Guard_new(ALLOC_MODE[t], LOG_DISABLED), LOG_DISABLED))
       ELSE /\ ALLOC_MODE' = Cell_set(ALLOC_MODE, t, Guard_new(ALLOC_MODE[t], LOG_DISABLED))
            /\ stack' = [stack EXCEPT ![t] =
                            Append(@, Frame("dump", "loop", NoLayout, {}))]
            /\ UNCHANGED <<status, msg>>
    /\ UNCHANGED <<ALLOC_LOG, ALLOC_INITIALIZING, out, hist, inner, ret>>

\* while ! log.is_empty(): on an empty queue the closure ends and the
\* guard is dropped.
dump_loop(t) ==
    /\ At(t, "dump", "loop")
    /\ IF ALLOC_LOG.q = <<>>
       THEN /\ ALLOC_MODE' = Cell_set(ALLOC_MODE, t, LeaveFrame(ALLOC_MODE[t], stack[t]))
            /\ stack' = [stack EXCEPT ![t] = Pop(@)]
       ELSE /\ stack' = [stack EXCEPT ![t] = SetTop(@, [Top(@) EXCEPT !.pc = "pop"])]
            /\ UNCHANGED ALLOC_MODE
    /\ UNCHANGED <<ALLOC_LOG, ALLOC_INITIALIZING, status, msg, out, hist, inner, ret>>

\* ArrayQueue::pop: Ok with the oldest entry, Err on an empty queue.
ArrayQueue_pop(q) ==
    IF q = <<>>
    THEN [ok |-> FALSE, q |-> q, entry |-> NoEvent]
    ELSE [ok |-> TRUE, q |-> Tail(q), entry |-> Head(q)]

\* match log.pop() { Ok(ref entry) => ..., Err(e) => panic!("Error: {}", e) }
dump_pop(t) ==
    /\ At(t, "dump", "pop")
    /\ LET r == ArrayQueue_pop(ALLOC_LOG.q) IN
       IF ~r.ok
       THEN /\ Panic(t, PopErrorMsg, ALLOC_MODE[t])
            /\ UNCHANGED <<ALLOC_LOG, hist>>
       ELSE /\ ALLOC_LOG' = Some(r.q)
            /\ hist' = [hist EXCEPT !.pops = @ + 1, !.poppers = @ \cup {t}]
            /\ stack' = [stack EXCEPT ![t] =
                            SetTop(@, [Top(@) EXCEPT !.pc = "resolve", !.ev = r.entry])]
            /\ UNCHANGED <<ALLOC_MODE, status, msg>>
    /\ UNCHANGED <<ALLOC_INITIALIZING, out, inner, ret>>

\* bt.iter().for_each(...): resolving the addresses; a named symbol is
\* copied with to_string(), which allocates through the global allocator.
dump_resolve(t) ==
    /\ At(t, "dump", "resolve")
    /\ LET f == [Top(stack[t]) EXCEPT !.pc = "print"] IN
       IF \E i \in 1..Len(f.ev.bt) : Named(f.ev.bt[i])
       THEN CallAlloc(t, StrLayout, SetTop(stack[t], f))
       ELSE /\ stack' = [stack EXCEPT ![t] = SetTop(@, f)]
            /\ UNCHANGED hist
    /\ UNCHANGED <<ALLOC_LOG, ALLOC_INITIALIZING, ALLOC_MODE, status, msg, out, inner, ret>>

\* println!("{:?} - {:?}", layout, trace)
dump_print(t) ==
    /\ At(t, "dump", "print")
    /\ LET ev == Top(stack[t]).ev IN
       out' = Append(out, [layout |-> ev.layout, trace |-> ResolveTrace(ev.bt)])
    /\ stack' = [stack EXCEPT ![t] = SetTop(@, [Top(@) EXCEPT !.pc = "loop"])]
    /\ UNCHANGED <<ALLOC_LOG, ALLOC_INITIALIZING, ALLOC_MODE, status, msg, hist, inner, ret>>

\* ----------------------------------------------------------- the program
Next ==
    \E t \in Threads :
        \/ thread_start(t)
        \/ program_alloc(t)
        \/ no_log(t)
        \/ forbid(t)
        \/ scope_return(t)
        \/ dump_alloc(t)
        \/ alloc_store(t)
        \/ alloc_new(t)
        \/ alloc_assign(t)
        \/ alloc_mode(t)
        \/ alloc_trace(t)
        \/ add_log_entry(t)
        \/ alloc_return(t)
        \/ dump_loop(t)
        \/ dump_pop(t)
        \/ dump_resolve(t)
        \/ dump_print(t)

Spec == Init /\ [][Next]_vars

\* The scenario of one recording thread: the queue is constructed and
\* empty, t1 has the enabled bit, t2 does not allocate; t1 makes its
\* requests and then dumps.
ScenarioInit ==
    /\ ALLOC_LOG = Some(<<>>)
    /\ ALLOC_INITIALIZING = TRUE
    /\ ALLOC_MODE = [t \in Threads |-> IF t = "t1" THEN {LOG_ENABLED} ELSE {LOG_DISABLED}]
    /\ stack = [t \in Threads |-> <<>>]
    /\ status = [t \in Threads |-> "run"]
    /\ msg = [t \in Threads |-> ""]
    /\ out = <<>>
    /\ hist = InitHist
    /\ inner = InitInner
    /\ ret = [t \in Threads |-> NoPtr]

ScenarioNext ==
    \/ hist.pops = 0 /\ program_alloc("t1")
    \/ dump_alloc("t1")
    \/ alloc_mode("t1")
    \/ alloc_trace("t1")
    \/ add_log_entry("t1")
    \/ alloc_return("t1")
    \/ dump_loop("t1")
    \/ dump_pop("t1")
    \/ dump_resolve("t1")
    \/ dump_print("t1")

SpecScenario == ScenarioInit /\ [][ScenarioNext]_vars

\* One thread using every operation of the wrapper, with an underlying
\* allocator that has memory or is out of it.
InitOne ==
    /\ \/ ALLOC_LOG = None /\ ALLOC_INITIALIZING = FALSE
       \/ ALLOC_LOG = Some(<<>>) /\ ALLOC_INITIALIZING = TRUE
    /\ ALLOC_MODE \in InitModes
    /\ stack = [t \in Threads |-> <<>>]
    /\ status = [t \in Threads |-> "run"]
    /\ msg = [t \in Threads |-> ""]
    /\ out = <<>>
    /\ hist = InitHist
    /\ inner \in {InitInner, [InitInner EXCEPT !.oom = TRUE]}
    /\ ret = [t \in Threads |-> NoPtr]

NextOne ==
    \/ program_alloc("t1")
    \/ realloc("t1")
    \/ dealloc("t1")
    \/ no_log("t1")
    \/ forbid("t1")
    \/ scope_return("t1")
    \/ dump_alloc("t1")
    \/ alloc_store("t1")
    \/ alloc_new("t1")
    \/ alloc_assign("t1")
    \/ alloc_mode("t1")
    \/ alloc_trace("t1")
    \/ add_log_entry("t1")
    \/ alloc_return("t1")
    \/ dump_loop("t1")
    \/ dump_pop("t1")
    \/ dump_resolve("t1")
    \/ dump_print("t1")

SpecOne == InitOne /\ [][NextOne]_vars

\* What a stack walk can have captured: up to MaxTrace entries, each an
\* address or None.
DumpTraces ==
    UNION { [1..n -> Addrs \cup {NoAddr}] : n \in 0..MaxTrace }

\* A dump of recorded events: the queue holds one event that a recording
\* thread pushed, with any captured stack; t1, not recording, dumps it.
InitDump ==
    /\ \E bt \in DumpTraces : ALLOC_LOG = Some(<<Test(RequestLayout(0), bt, 1)>>)
    /\ ALLOC_INITIALIZING = TRUE
    /\ ALLOC_MODE = [t \in Threads |-> {LOG_DISABLED}]
    /\ stack = [t \in Threads |-> <<>>]
    /\ status = [t \in Threads |-> "run"]
    /\ msg = [t \in Threads |-> ""]
    /\ out = <<>>
    /\ hist = [InitHist EXCEPT !.reqs = 1, !.calls = 1, !.pushes = 1,
                               !.pushers = {"t2"}]
    /\ inner = [InitInner EXCEPT !.n = 1]
    /\ ret = [t \in Threads |-> NoPtr]

NextDump ==
    \/ dump_alloc("t1")
    \/ dump_loop("t1")
    \/ dump_pop("t1")
    \/ dump_resolve("t1")
    \/ dump_print("t1")
    \/ alloc_mode("t1")
    \/ alloc_return("t1")

SpecDump == InitDump /\ [][NextDump]_vars

\* The program as written: the process starts with no queue, every thread's
\* flags are created as {LOG_DISABLED}, and the threads use alloc, no_log,
\* forbid and dump_alloc (t1 also realloc and dealloc).  The steps of the recording
\* branch of alloc and of the body of dump_alloc's loop are left out of the
\* next-state relation: C19_NeverEnabled states that no thread is ever at one
\* of them.
InitWritten ==
    /\ ALLOC_LOG = None
    /\ ALLOC_INITIALIZING = FALSE
    /\ ALLOC_MODE = [t \in Threads |-> Cell_new]
    /\ stack = [t \in Threads |-> <<>>]
    /\ status = [t \in Threads |-> IF t = "t1" THEN "run" ELSE "new"]
    /\ msg = [t \in Threads |-> ""]
    /\ out = <<>>
    /\ hist = InitHist
    /\ inner = InitInner
    /\ ret = [t \in Threads |-> NoPtr]

NextWritten ==
    \E t \in Threads :
        \/ thread_start(t)
        \/ program_alloc(t)
        \/ (t \in Scoped /\ realloc(t))
        \/ (t \in Scoped /\ dealloc(t))
        \/ no_log(t)
        \/ forbid(t)
        \/ scope_return(t)
        \/ dump_alloc(t)
        \/ alloc_store(t)
        \/ alloc_new(t)
        \/ alloc_assign(t)
        \/ alloc_mode(t)
        \/ alloc_return(t)
        \/ dump_loop(t)

SpecWritten == InitWritten /\ [][NextWritten]_vars

\* ------------------------------------------------------------ properties
\* The alloc frames of a thread's stack.
AllocFrames(t) == {i \in 1..Len(stack[t]) : stack[t][i].kind = "alloc"}

\* Thread t returns from the scope it is innermost in.
ScopeExit(t) ==
    /\ status[t] = "run"
    /\ stack[t] # <<>>
    /\ IsScope(Top(stack[t]))
    /\ status'[t] = "run"
    /\ stack'[t] = Pop(stack[t])

\* The bit a scope requested.
ScopeBit(f) == IF f.kind = "forbid" THEN FORBID ELSE LOG_DISABLED

\* C1: an alloc call made while the calling thread's flags do not include
\* the enabled bit pushes no event.
C1_NoEventWithoutEnabled ==
    \A t \in Threads : \A i \in AllocFrames(t) :
        ~Contains(stack[t][i].entry, LOG_ENABLED) => ~stack[t][i].pushed

\* A call made without the enabled bit has passed the mode tests on a
\* constructed queue and is about to return.
C1_Witness ==
    \E t \in Threads :
        /\ At(t, "alloc", "drop")
        /\ ~Contains(Top(stack[t]).entry, LOG_ENABLED)
        /\ ALLOC_LOG.some

\* C2: an alloc call made with the forbidden bit set ends in the panic
\* "Allocation performed when forbidden"; until then it stays before the
\* mode tests, so it neither pushes an event nor reaches the underlying
\* allocator, whether or not the enabled bit is set.
C2_ForbiddenAllocPanics ==
    [][\A t \in Threads :
          LET n == Len(stack[t]) IN
          ( /\ status[t] = "run"
            /\ n > 0
            /\ Top(stack[t]).kind = "alloc"
            /\ Contains(Top(stack[t]).entry, FORBID)
            /\ stack'[t] # stack[t] )
          => /\ hist'.pushes = hist.pushes
             /\ \/ status'[t] = "dead" /\ msg'[t] = ForbiddenMsg
                \/ /\ status'[t] = "run"
                   /\ Len(stack'[t]) >= n
                   /\ stack'[t][n].pc \in {"store", "new", "assign", "mode"}
                   /\ ~stack'[t][n].pushed]_vars

\* A thread with the enabled bit has died of the forbidden panic on a
\* constructed queue.
C2_Witness ==
    \E t \in Threads :
        /\ status[t] = "dead"
        /\ msg[t] = ForbiddenMsg
        /\ Contains(ALLOC_MODE[t], LOG_ENABLED)
        /\ ALLOC_LOG.some

C7_FullQueueFailsFast ==
    [][/\ Len(ALLOC_LOG'.q) <= ALLOC_LOG_SIZE
       /\ \A t \in Threads :
             ( /\ At(t, "alloc", "push")
               /\ ALLOC_LOG.some
               /\ Len(ALLOC_LOG.q) = ALLOC_LOG_SIZE
               /\ stack'[t] # stack[t] )
             => /\ status'[t] = "dead"
                /\ msg'[t] = PushErrorMsg
                /\ ALLOC_LOG' = ALLOC_LOG]_vars

\* A thread has died pushing on the full queue.
C7_Witness ==
    \E t \in Threads :
        /\ status[t] = "dead"
        /\ msg[t] = PushErrorMsg
        /\ Len(ALLOC_LOG.q) = ALLOC_LOG_SIZE

\* C8: the assignment ALLOC_LOG = Some(..) is only executed while
\* ALLOC_LOG is None.
C8_ConstructedOnce ==
    [][\A t \in Threads :
          (At(t, "alloc", "assign") /\ stack'[t] # stack[t]) => ~ALLOC_LOG.some]_vars

\* C9: when a scope is left, by the return of its closure or by a panic
\* unwinding through it, the thread's flags do not contain the bit the
\* scope requested.
C9_BitNotLeaked ==
    [][\A t \in Threads :
          /\ ScopeExit(t) => ~Contains(ALLOC_MODE'[t], ScopeBit(Top(stack[t])))
          /\ (status[t] = "run" /\ status'[t] = "dead")
                => \A i \in 1..Len(stack[t]) :
                      IsScope(stack[t][i])
                          => ~Contains(ALLOC_MODE'[t], ScopeBit(stack[t][i]))]_vars

\* A panic has unwound through a forbid scope.
C9_Witness ==
    \E t \in Threads :
        /\ status[t] = "dead"
        /\ msg[t] = ForbiddenMsg
        /\ ~Contains(ALLOC_MODE[t], FORBID)

\* C10: the return from a scope removes exactly the scope's bit from the
\* thread's flags, also when an outer scope that requested the same bit is
\* still active.
C10_NonCountingRelease ==
    [][\A t \in Threads :
          ScopeExit(t)
              => ALLOC_MODE'[t] = ALLOC_MODE[t] \ {ScopeBit(Top(stack[t]))}]_vars

\* A forbid scope is active and the thread's flags lack the forbidden bit:
\* an inner forbid scope has returned.
C10_Witness ==
    \E t \in Threads :
        /\ status[t] = "run"
        /\ \E i \in 1..Len(stack[t]) : stack[t][i].kind = "forbid"
        /\ ~Contains(ALLOC_MODE[t], FORBID)

\* C11: a realloc or dealloc call, whatever the flags of the calling thread,
\* changes nothing of the wrapper: the queue, the initialization guard, every
\* thread's flags, stack, status and message and the printed lines stay as
\* they are, and no push is counted; the events in the queue all carry a
\* serial number that a push of an alloc call gave out.
C11_PassThrough ==
    [][/\ (inner'.reallocs # inner.reallocs \/ inner'.deallocs # inner.deallocs)
            => /\ UNCHANGED <<ALLOC_LOG, ALLOC_INITIALIZING, ALLOC_MODE, stack,
                              status, msg, out>>
               /\ hist'.pushes = hist.pushes
               /\ inner'.n = inner.n
       /\ \A i \in 1..Len(ALLOC_LOG'.q) :
             ALLOC_LOG'.q[i].id \in 1..hist'.pushes]_vars

\* realloc or dealloc was called with the enabled and the forbidden bit set,
\* and with the enabled bit while the queue held an event.
C11_Witness ==
    /\ inner.reallocs > 0
    /\ inner.deallocs > 0
    /\ {LOG_ENABLED, FORBID} \in hist.fwd
    /\ {LOG_ENABLED} \in hist.fwd
    /\ ALLOC_LOG.q # <<>>

\* The thread that takes the step (the abort of the process changes every
\* thread's status and is no step of theirs).
Acts(t) ==
    /\ stack'[t] # stack[t] \/ status'[t] # status[t]
    /\ status'[t] # "abort"

\* C12: a step of one thread leaves the flags of every other thread as they
\* are; an alloc call at its mode tests panics as forbidden exactly when the
\* calling thread's own flags hold the forbidden bit, and else goes on to
\* record exactly when they hold the enabled bit; a thread starts with the
\* flags {LOG_DISABLED}.
C12_PerThread ==
    [][\A t \in Threads :
          /\ Acts(t) => \A u \in Threads \ {t} : ALLOC_MODE'[u] = ALLOC_MODE[u]
          /\ (Acts(t) /\ At(t, "alloc", "mode"))
                => IF FORBID \in ALLOC_MODE[t]
                   THEN status'[t] = "dead" /\ msg'[t] = ForbiddenMsg
                   ELSE /\ status'[t] = "run"
                        /\ Top(stack'[t]).pc =
                              IF LOG_ENABLED \in ALLOC_MODE[t] THEN "trace" ELSE "drop"
          /\ (status[t] = "new" /\ status'[t] = "run")
                => ALLOC_MODE'[t] = {LOG_DISABLED}]_vars

\* t1 is inside a forbid scope with the enabled bit while t2, started with
\* its own flags, has passed the mode tests of an alloc call.
C12_Witness ==
    /\ status["t1"] = "run"
    /\ {FORBID, LOG_ENABLED} \subseteq ALLOC_MODE["t1"]
    /\ At("t2", "alloc", "drop")
    /\ ~Top(stack["t2"]).pushed

\* C13: the underlying allocator receives an alloc call only from a wrapper
\* call that has finished its mode tests and its recording, one call at a
\* time; a wrapper call that returns has passed exactly one call on, and
\* returns what the underlying allocator gave for the caller's descriptor:
\* null when it is out of memory, else a block of the size asked,
\* whether or not the call recorded an event.
C13_Delegates ==
    [][/\ inner'.n # inner.n
            => /\ inner'.n = inner.n + 1
               /\ \E t \in Threads :
                     /\ At(t, "alloc", "drop")
                     /\ stack'[t] = Pop(stack[t]) \/ status'[t] = "abort"
                     /\ (ModeCheck(Top(stack[t]).entry \cup {LOG_DISABLED}) = "record")
                            => Top(stack[t]).pushed
       /\ \A t \in Threads :
             ( /\ status[t] = "run" /\ status'[t] = "run"
               /\ stack[t] # <<>>
               /\ Top(stack[t]).kind = "alloc"
               /\ stack'[t] = Pop(stack[t]) )
             => /\ inner'.n = inner.n + 1
                /\ ret'[t] = IF inner.oom
                             THEN [block |-> 0, size |-> 0]
                             ELSE [block |-> 1,
                                   size |-> Top(stack[t]).layout.size]]_vars

\* A call that recorded an event has returned the null result of an
\* underlying allocator that is out of memory.
C13_Witness ==
    \E t \in Threads :
        /\ status[t] = "run"
        /\ stack[t] = <<>>
        /\ ret[t] = NullPtr
        /\ inner.oom
        /\ inner.n > 0
        /\ t \in hist.pushers

\* Of the addresses modelled, those whose symbol has a name without any of
\* the three filter substrings: main and retrace.
KeptAddr(addr) == addr \in {"a_main", "a_trace"}

\* C14: the line dump_alloc prints for an event lists no name that contains
\* "backtrace", "GlobalAlloc" or "insight"; it lists exactly the names of
\* the event's addresses that resolve to a name without them, in captured
\* order; and a dump of such events neither panics nor aborts.
C14_FilteredNames ==
    [][\A t \in Threads :
          /\ (At(t, "dump", "print") /\ out' # out)
                => LET bt == Top(stack[t]).ev.bt
                       kept == SelectSeq(bt, KeptAddr)
                       line == out'[Len(out')]
                   IN /\ Len(out') = Len(out) + 1
                      /\ \A i \in 1..Len(line.trace) : \A pat \in Filters :
                            ~StrContains(line.trace[i], pat)
                      /\ line.trace = [i \in 1..Len(kept) |-> SymbolName(kept[i])]
          /\ (\E i \in 1..Len(stack[t]) : stack[t][i].kind = "dump")
                => status'[t] = "run"]_vars

\* The dump has printed a non-empty list of names for an event whose stack
\* held an address that contributes nothing.
C14_Witness ==
    \E t \in Threads :
        /\ At(t, "dump", "loop")
        /\ out # <<>>
        /\ out[Len(out)].trace # <<>>
        /\ \E i \in 1..Len(Top(stack[t]).ev.bt) : ~KeptAddr(Top(stack[t]).ev.bt[i])

\* C15: an alloc call that returns leaves the calling thread's flags as
\* they were when the call was made.
C15_AllocKeepsFlags ==
    [][\A t \in Threads :
          ( /\ At(t, "alloc", "drop")
            /\ status'[t] = "run"
            /\ stack'[t] = Pop(stack[t]) )
          => ALLOC_MODE'[t] = Top(stack[t]).entry]_vars

C19_NeverEnabled ==
    /\ \A t \in Threads :
          /\ ~Contains(ALLOC_MODE[t], LOG_ENABLED)
          /\ ALLOC_MODE[t] \subseteq {LOG_DISABLED, FORBID}
          /\ \A i \in 1..Len(stack[t]) :
                /\ stack[t][i].kind = "alloc"
                      => stack[t][i].pc \notin {"trace", "push"}
                /\ stack[t][i].kind = "dump" => stack[t][i].pc = "loop"
    /\ ALLOC_LOG.q = <<>>
    /\ hist.pushes = 0
    /\ out = <<>>

\* The queue has been constructed, allocations have returned, and a thread
\* inside a forbid scope is running dump_alloc.
C19_Witness ==
    /\ ALLOC_LOG.some
    /\ inner.n > 1
    /\ \E t \in Threads :
          /\ At(t, "dump", "loop")
          /\ Contains(ALLOC_MODE[t], FORBID)

====
